---- MODULE Spec2Model ----
(***************************************************************************)
(* A model of src/main.py: the puzzle benchmark harness                    *)
(* (StrategyEvaluator), the puzzle record decoder (PuzzleExtractor), the   *)
(* strategies (RandomStrategy, MinMaxStrategy) and the two static          *)
(* evaluators (MaterialBalanceEvaluator, MaterialDiffEvaluator).           *)
(*                                                                         *)
(* The chess rules engine (python-chess) is outside the program.  A board  *)
(* is seen through the interface the program uses: side to move, piece     *)
(* counts, is_checkmate() and the ordered list of legal moves.  What the   *)
(* engine answers for a successor position is an input of the search: it   *)
(* is drawn when the program asks for it (apply_move), and never changes   *)
(* afterwards.  Boards are objects on a heap (boards), so that copying a   *)
(* board and pushing a move on the original are different things.          *)
(***************************************************************************)
EXTENDS Integers, Sequences, FiniteSets, TLC

VARIABLES
    header,        \* the header record of the puzzle file (column names, in file order)
    strategies,    \* self.strategies: the registered strategies, in registration order
    self_depth,    \* MinMaxStrategy.depth of the registered minmax strategies
    pc,            \* where evaluate_all is: start, loop, strategies, search, done, raised
    raised,        \* the exception that ended evaluate_all ("none" while it runs)
    nread,         \* number of data rows read so far
    expected,      \* evaluate_puzzle's argument expected (solution_moves[0])
    si,            \* index into self.strategies of the next strategy to ask
    some_success,  \* evaluate_puzzle's local some_success
    stats,         \* stats[i] = the stats dict of strategy i: wins, total
    snapshots,     \* number of print_stats calls made so far
    boards,        \* the heap of chess.Board objects: id -> board value
    stack,         \* the call stack of minmax: one frame per active call
    \* ---- history variables (observers; the program does not read them)
    puzzle,        \* the position the current row's FEN cell held, <<>> if none
    usedCols,      \* the columns extract_puzzle took its two fields from
    answers,       \* what each strategy answered on the current puzzle, in order
    completed,     \* number of puzzles evaluate_puzzle has returned for
    hits,          \* number of completed puzzles that some strategy answered correctly
    correct,       \* correct[i] = number of completed puzzles strategy i answered correctly
    mates,         \* per root move applied so far: is the position after it checkmate?
    evalCall,      \* the arguments of the evaluator call made by the last step, or <<>>
    leafMin,       \* per root move, the least evaluator score seen in its subtree
    ret            \* what the minmax call that returned in the last step returned, or <<>>

vars == <<header, strategies, self_depth, pc, raised, nread, expected, si, some_success, stats,
          snapshots, boards, stack, puzzle, usedCols, answers, completed, hits,
          correct, mates, evalCall, leafMin, ret>>

---------------------------------------------------------------------------
\* Bounds of the model.
MaxMoves == 2      \* legal moves per position
MaxPuzzles == 2    \* data rows in the puzzle file

\* MinMaxStrategy.__init__'s default depth, the depth main() searches to.
DEFAULT_DEPTH == 3

---------------------------------------------------------------------------
\* The rules engine's interface.

Colors == {"w", "b"}
PieceTypes == {"P", "N", "B", "R", "Q"}

PIECE_VALUES == [pt \in PieceTypes |->
                   CASE pt = "P" -> 1 [] pt = "N" -> 3 [] pt = "B" -> 3
                     [] pt = "R" -> 5 [] pt = "Q" -> 9]

opponent(color) == IF color = "w" THEN "b" ELSE "w"

Army(p, r, q) == [pt \in PieceTypes |->
                    CASE pt = "P" -> p [] pt = "R" -> r [] pt = "Q" -> q
                      [] OTHER -> 0]

\* The piece sets a side starts a puzzle with.
Armies == {Army(0, 0, 0), Army(0, 0, 1)}

\* A board value: side to move, piece counts, is_checkmate(), and the number of
\* legal moves (the legal moves are 1..moves, in the engine's enumeration order).
\* Checkmate implies no legal move; no legal move without checkmate is stalemate.
Position(t, ws, bs, n, m) ==
    [turn |-> t, pieces |-> [c \in Colors |-> IF c = "w" THEN ws ELSE bs],
     moves |-> n, mate |-> m]

RootPositions ==
    { p \in { Position(t, ws, bs, n, m) :
                t \in Colors, ws \in Armies, bs \in Armies,
                n \in 0..MaxMoves, m \in BOOLEAN } : p.mate => p.moves = 0 }

\* The positions the puzzles of a file start from: white to move (the code
\* treats the two colours alike, and the side to move alternates with every ply).
PuzzlePositions == {p \in RootPositions : p.turn = "w"}

legal_moves(board) == [i \in 1..board.moves |-> i]

\* What a move can capture: nothing, or one of the opponent's pieces.
Captures(board) ==
    {"none"} \cup {pt \in PieceTypes : board.pieces[opponent(board.turn)][pt] > 0}

\* The engine's answers about the position after a move: what the move
\* captured, how many legal moves the successor has, whether it is checkmate.
\* The search asks for the legal moves of a position only above its depth limit
\* (asked); for a position at the limit it asks is_checkmate() alone, and the
\* reply leaves the number of moves at 0.
Replies(board, asked) ==
    { r \in { [cap |-> c, moves |-> n, mate |-> m] :
                c \in Captures(board), n \in 0..MaxMoves, m \in BOOLEAN } :
        /\ r.mate => r.moves = 0
        /\ ~asked => r.moves = 0 }

\* chess.Board.push: the position after the move, by the engine's reply.
push(board, reply) ==
    LET them == opponent(board.turn) IN
    [turn   |-> them,
     pieces |-> IF reply.cap = "none" THEN board.pieces
                ELSE [board.pieces EXCEPT ![them][reply.cap] = @ - 1],
     moves  |-> reply.moves,
     mate   |-> reply.mate]

\* Move.uci(): the text of a move.
UciNames == <<"a2a3", "b2b3", "c2c3", "d2d3", "e2e3", "f2f3">>
uci(move) == UciNames[move]

None == "None"

---------------------------------------------------------------------------
\* BaseBoardEvaluator and its two subclasses.

\* The piece types in the order the weights dict is iterated in.
WeightKeys == <<"P", "N", "B", "R", "Q">>

\* sum(weights[piece_type] * count for piece_type in weights), from key k on.
RECURSIVE SumWeights(_, _, _)
SumWeights(k, weights, counts) ==
    IF k > Len(WeightKeys) THEN 0
    ELSE weights[WeightKeys[k]] * counts[WeightKeys[k]] + SumWeights(k + 1, weights, counts)

\* len(board.pieces(piece_type, color)) is board.pieces[color][piece_type].
sum_pieces(board, color) == SumWeights(1, PIECE_VALUES, board.pieces[color])

MaterialBalanceEvaluate(board, init_board, player) ==
    IF board.mate THEN -player
    ELSE LET color == board.turn IN
         player * (sum_pieces(board, color) - sum_pieces(board, opponent(color)))

\* MaterialDiffEvaluate without the opponent's reference material.
MaterialDiffEvaluate_no_baseline(board, init_board, player) ==
    IF board.mate THEN -player
    ELSE LET color == board.turn IN
         player * ((sum_pieces(board, color) - sum_pieces(init_board, color))
                   - sum_pieces(board, opponent(color)))

MaterialDiffEvaluate(board, init_board, player) ==
    IF board.mate THEN -player
    ELSE LET color == board.turn IN
         player * ((sum_pieces(board, color) - sum_pieces(init_board, color))
                   - (sum_pieces(board, opponent(color))
                      - sum_pieces(init_board, opponent(color))))

\* self.evaluator.evaluate: dispatch on the evaluator the strategy was built with.
evaluate(evaluator, board, init_board, player) ==
    IF evaluator = "balance" THEN MaterialBalanceEvaluate(board, init_board, player)
    ELSE MaterialDiffEvaluate(board, init_board, player)

---------------------------------------------------------------------------
\* The strategies main() registers, in registration order.
RandomStrategy == [name |-> "random", kind |-> "random", evaluator |-> "none"]
MinMaxStrategy(name, evaluator) == [name |-> name, kind |-> "minmax", evaluator |-> evaluator]

STRATEGIES ==
    << RandomStrategy,
       MinMaxStrategy("minmax_balance", "balance"),
       MinMaxStrategy("minmax_diff", "diff") >>

\* update_stats counting every attempt as a win.
update_stats_always_wins(st, i, won) ==
    [st EXCEPT ![i] = [total |-> @.total + 1, wins |-> @.wins + 1]]

\* ChessStrategy.update_stats on the stats of strategy i.
update_stats(st, i, won) ==
    [st EXCEPT ![i] = [total |-> @.total + 1,
                       wins  |-> IF won THEN @.wins + 1 ELSE @.wins]]

---------------------------------------------------------------------------
\* PuzzleExtractor.

HEADERS == <<"PuzzleId", "FEN", "Moves", "Rating", "RatingDeviation", "Popularity",
             "NbPlays", "Themes", "GameUrl", "OpeningTags">>

\* self.header_idx: column name -> index into HEADERS.
header_idx == [h \in {HEADERS[i] : i \in DOMAIN HEADERS} |->
                 CHOOSE i \in DOMAIN HEADERS : HEADERS[i] = h]

\* HEADERS with the columns at i and j exchanged.
Swapped(i, j) == [k \in DOMAIN HEADERS |->
                    IF k = i THEN HEADERS[j] ELSE IF k = j THEN HEADERS[i] ELSE HEADERS[k]]

\* The column orders a puzzle file may come in: the documented one, and some
\* reorderings of it.
HeaderOrders == {HEADERS, Swapped(2, 3), Swapped(1, 2), Swapped(3, 4)}

\* The move lists a row's Moves cell may hold (space separated in the file).
Solutions == {<<uci(m)>> : m \in 1..MaxMoves}
             \cup {<<uci(m), uci(1)>> : m \in 1..MaxMoves}

\* One cell of a data row.  fen is what chess.Board(cell) gives: the position for
\* a FEN cell, and no position (ValueError) for any other cell.  words is what
\* cell.split(' ') gives: the moves of a Moves cell, and for any other cell words
\* that are no move of any position.
Cell(col, pos, sol) ==
    [col   |-> col,
     fen   |-> IF col = "FEN" THEN <<pos>> ELSE <<>>,
     words |-> IF col = "Moves" THEN sol ELSE <<"junk">>]

\* The data row of a puzzle in a file whose header is hdr: line.split(',').
Row(hdr, pos, sol) == [k \in DOMAIN hdr |-> Cell(hdr[k], pos, sol)]

\* PuzzleExtractor.extract_puzzle, up to the construction of the board.
extract_puzzle(xs) ==
    [fen            |-> xs[header_idx["FEN"]],
     solution_moves |-> xs[header_idx["Moves"]]]

---------------------------------------------------------------------------
\* MinMaxStrategy.

\* apply_move without the copy: the move is pushed on the caller's board.
apply_move_in_place(heap, board, reply) ==
    [heap |-> [heap EXCEPT ![board] = push(heap[board], reply)],
     new_board |-> board]

\* new_board = board.copy(); new_board.push(move): a new object on the heap.
apply_move(heap, board, reply) ==
    LET new_board == CHOOSE id \in 0..Cardinality(DOMAIN heap) : id \notin DOMAIN heap IN
    [heap |-> (new_board :> push(heap[board], reply)) @@ heap,
     new_board |-> new_board]

\* Where e goes in a list sorted by score: after every entry whose score is not
\* larger (list.sort is stable).
RECURSIVE InsertByScore(_, _)
InsertByScore(sorted, e) ==
    IF sorted = <<>> THEN <<e>>
    ELSE IF e[1] < Head(sorted)[1] THEN <<e>> \o sorted
    ELSE <<Head(sorted)>> \o InsertByScore(Tail(sorted), e)

\* evaluations.sort(key=lambda x: x[0])
RECURSIVE SortByScore(_)
SortByScore(evals) ==
    IF evals = <<>> THEN <<>>
    ELSE InsertByScore(SortByScore(SubSeq(evals, 1, Len(evals) - 1)),
                       evals[Len(evals)])

\* A selection that breaks ties the other way: the last of the minimal entries.
select_ties_last(evals) ==
    LET sorted == SortByScore(evals)
        last == CHOOSE i \in DOMAIN sorted :
                  /\ sorted[i][1] = sorted[1][1]
                  /\ \A j \in DOMAIN sorted : sorted[j][1] = sorted[1][1] => j <= i
    IN  sorted[last]

\* What minmax returns once every move is evaluated: evaluations[0] after the sort.
select(evals) == SortByScore(evals)[1]

\* A frame of minmax: its arguments, and its locals moves and evaluations.
Frame(board, player, init_board, depth, moves) ==
    [board |-> board, player |-> player, init_board |-> init_board,
     depth |-> depth, moves |-> moves, evals |-> <<>>]

\* A search that alternates the perspective between plies.
child_player_flipped(player) == -player

\* The perspective evaluate_move hands to the recursive call.
child_player(player) == player

\* A depth test that is off by one.
at_cutoff_late(depth) == self_depth < depth

\* The depth at which minmax stops expanding: self.depth <= depth.
at_cutoff(depth) == self_depth <= depth

\* The objects still referenced once the callee's frame is gone.
Collect(heap, frames) ==
    [id \in {i \in DOMAIN heap :
               i = 0 \/ \E k \in DOMAIN frames :
                            frames[k].board = i \/ frames[k].init_board = i}
       |-> heap[id]]

---------------------------------------------------------------------------
\* The state after StrategyEvaluator(db_file) and main()'s three add_strategy
\* calls, for every column order of the file.  The minmax strategies are
\* built with the default depth.

Idle ==
    /\ raised = "none"
    /\ si = 1
    /\ some_success = FALSE
    /\ stats = [i \in DOMAIN strategies |-> [wins |-> 0, total |-> 0]]
    /\ snapshots = 0
    /\ stack = <<>>
    /\ answers = <<>>
    /\ completed = 0
    /\ hits = 0
    /\ correct = [i \in DOMAIN strategies |-> 0]
    /\ mates = <<>>
    /\ evalCall = <<>>
    /\ leafMin = <<>>
    /\ ret = <<>>

Init ==
    /\ header \in HeaderOrders
    /\ strategies = STRATEGIES
    /\ self_depth = DEFAULT_DEPTH
    /\ pc = "start"
    /\ nread = 0
    /\ expected = None
    /\ boards = <<>>
    /\ puzzle = <<>>
    /\ usedCols = <<>>
    /\ Idle

Top == stack[Len(stack)]

\* print_stats(): one snapshot is emitted.
print_stats(n) == n + 1

\* evaluate_puzzle, line 145-146: some_success after the answer actual.
hit(flag, actual, wanted) == flag \/ actual = wanted

\* evaluate_puzzle, lines 145-147, for the answer of strategy si.
Outcome(actual) ==
    /\ some_success' = hit(some_success, actual, expected)
    /\ stats' = update_stats(stats, si, actual = expected)
    /\ si' = si + 1
    /\ answers' = Append(answers, actual)
    /\ pc' = "strategies"

\* evaluate_all: open the file and skip its first line.
OpenFile ==
    /\ pc = "start"
    /\ pc' = "loop"
    /\ UNCHANGED <<header, strategies, self_depth, raised, nread, expected, si,
                   some_success, stats, snapshots, boards, stack, puzzle, usedCols,
                   answers, completed, hits, correct, mates, evalCall, leafMin, ret>>

\* evaluate_all: the next data row is read and decoded, and evaluate_puzzle starts.
\* chess.Board(fen) raises ValueError for a text that is no FEN.
ReadPuzzle ==
    /\ pc = "loop"
    /\ nread < MaxPuzzles
    /\ \E pos \in PuzzlePositions, sol \in Solutions :
         LET got == extract_puzzle(Row(header, pos, sol)) IN
         /\ nread' = nread + 1
         /\ usedCols' = <<got.fen.col, got.solution_moves.col>>
         /\ puzzle' = <<pos>>
         /\ IF got.fen.fen = <<>>
            THEN /\ raised' = "ValueError"
                 /\ pc' = "raised"
                 /\ UNCHANGED <<boards, expected, si, some_success, answers>>
            ELSE /\ boards' = (0 :> got.fen.fen[1])
                 /\ expected' = got.solution_moves.words[1]
                 /\ si' = 1
                 /\ some_success' = FALSE
                 /\ answers' = <<>>
                 /\ pc' = "strategies"
                 /\ UNCHANGED raised
    /\ UNCHANGED <<header, strategies, self_depth, stats, snapshots, stack, completed,
                   hits, correct, mates, evalCall, leafMin, ret>>

\* RandomStrategy.get_move, and the harness's bookkeeping of its answer.
\* random.choice of an empty list raises IndexError.
RandomGetMove ==
    /\ pc = "strategies"
    /\ si \in DOMAIN strategies
    /\ strategies[si].kind = "random"
    /\ LET moves == legal_moves(boards[0]) IN
       IF moves = <<>>
       THEN /\ raised' = "IndexError"
            /\ pc' = "raised"
            /\ UNCHANGED <<some_success, stats, si, answers>>
       ELSE /\ \E k \in DOMAIN moves : Outcome(uci(moves[k]))
            /\ UNCHANGED raised
    /\ UNCHANGED <<header, strategies, self_depth, nread, expected, snapshots, boards,
                   stack, puzzle, usedCols, completed, hits, correct, mates, evalCall,
                   leafMin, ret>>

\* MinMaxStrategy.get_move calls minmax(board): player = 1, depth = 0, and
\* init_board = None, which minmax replaces by board.
MinMaxGetMove ==
    /\ pc = "strategies"
    /\ si \in DOMAIN strategies
    /\ strategies[si].kind = "minmax"
    /\ stack' = <<Frame(0, 1, 0, 0, legal_moves(boards[0]))>>
    /\ pc' = "search"
    /\ mates' = <<>>
    /\ leafMin' = <<>>
    /\ ret' = <<>>
    /\ evalCall' = <<>>
    /\ UNCHANGED <<header, strategies, self_depth, raised, nread, expected, si,
                   some_success, stats, snapshots, boards, puzzle, usedCols, answers,
                   completed, hits, correct>>

\* minmax returns (score, move), move being <<>> for None.  The caller is
\* evaluate_move, which keeps the score and pairs it with the move it applied, or
\* get_move, which turns the move into text and hands it to the harness.
Return(score, move) ==
    /\ ret' = <<[score |-> score, move |-> move, depth |-> Top.depth,
                 moves |-> Top.moves, evals |-> Top.evals]>>
    /\ IF Len(stack) > 1
       THEN LET caller == stack[Len(stack) - 1]
                applied == caller.moves[Len(caller.evals) + 1]
                frames == [SubSeq(stack, 1, Len(stack) - 1) EXCEPT
                             ![Len(stack) - 1].evals = Append(@, <<score, applied>>)]
            IN  /\ stack' = frames
                /\ boards' = Collect(boards, frames)
                /\ UNCHANGED <<pc, some_success, stats, si, answers>>
       ELSE /\ stack' = <<>>
            /\ boards' = Collect(boards, <<>>)
            /\ Outcome(IF move # <<>> THEN uci(move[1]) ELSE None)

\* The evaluator is called on the top frame's board; its score is a leaf score
\* of the root move whose subtree the search is in.
Evaluated(score) ==
    /\ evalCall' = <<[evaluator |-> strategies[si].evaluator, player |-> Top.player,
                      init_board |-> Top.init_board, depth |-> Top.depth,
                      moves |-> Len(Top.moves), score |-> score]>>
    /\ leafMin' =
         IF Len(stack) = 1 THEN leafMin
         ELSE LET r == Len(stack[1].evals) + 1 IN
              IF r \in DOMAIN leafMin
              THEN [leafMin EXCEPT ![r] = IF score < @ THEN score ELSE @]
              ELSE Append(leafMin, score)

\* Where a call of minmax is: at its depth limit (line 85); above it on a
\* position without legal moves (line 89); in the comprehension of lines 92-95
\* with moves left to evaluate; or past it, with every move evaluated.
AtLimit(f) == at_cutoff(f.depth)
NoMoves(f) == ~at_cutoff(f.depth) /\ f.moves = <<>>
MovesLeft(f) == ~at_cutoff(f.depth) /\ Len(f.evals) < Len(f.moves)
AllEvaluated(f) == ~at_cutoff(f.depth) /\ f.moves # <<>> /\ Len(f.evals) = Len(f.moves)

\* minmax, lines 85-86: the depth limit is reached.
MinmaxCutoff ==
    /\ pc = "search"
    /\ AtLimit(Top)
    /\ LET score == evaluate(strategies[si].evaluator, boards[Top.board],
                             boards[Top.init_board], Top.player)
       IN  /\ Evaluated(score)
           /\ Return(score, <<>>)
    /\ UNCHANGED <<header, strategies, self_depth, raised, nread, expected, snapshots,
                   puzzle, usedCols, completed, hits, correct, mates>>

\* minmax, lines 88-90: the position has no legal move.
MinmaxTerminal ==
    /\ pc = "search"
    /\ NoMoves(Top)
    /\ LET score == evaluate(strategies[si].evaluator, boards[Top.board],
                             boards[Top.init_board], Top.player)
       IN  /\ Evaluated(score)
           /\ Return(score, <<>>)
    /\ UNCHANGED <<header, strategies, self_depth, raised, nread, expected, snapshots,
                   puzzle, usedCols, completed, hits, correct, mates>>

\* minmax, lines 92-95, one element of the comprehension: evaluate_move applies
\* the next move to a copy of the board and calls minmax on it.
EvaluateMove ==
    /\ pc = "search"
    /\ MovesLeft(Top)
    /\ \E reply \in Replies(boards[Top.board], ~at_cutoff(Top.depth + 1)) :
         LET made == apply_move(boards, Top.board, reply)
             new_board == made.heap[made.new_board]
         IN  /\ boards' = made.heap
             /\ stack' = Append(stack, Frame(made.new_board, child_player(Top.player),
                                             Top.init_board, Top.depth + 1,
                                             legal_moves(new_board)))
             /\ mates' = IF Len(stack) = 1 THEN Append(mates, reply.mate) ELSE mates
    /\ evalCall' = <<>>
    /\ ret' = <<>>
    /\ UNCHANGED <<header, strategies, self_depth, pc, raised, nread, expected, si,
                   some_success, stats, snapshots, puzzle, usedCols, answers, completed,
                   hits, correct, leafMin>>

\* minmax, lines 96-97: every move is evaluated; sort and return the first.
MinmaxSelect ==
    /\ pc = "search"
    /\ AllEvaluated(Top)
    /\ LET best == select(Top.evals) IN Return(best[1], <<best[2]>>)
    /\ evalCall' = <<>>
    /\ UNCHANGED <<header, strategies, self_depth, raised, nread, expected, snapshots,
                   puzzle, usedCols, completed, hits, correct, mates, leafMin>>

\* evaluate_puzzle returns some_success, and evaluate_all prints a snapshot if
\* it is true.
PuzzleDone ==
    /\ pc = "strategies"
    /\ si \notin DOMAIN strategies
    /\ snapshots' = IF some_success THEN print_stats(snapshots) ELSE snapshots
    /\ completed' = completed + 1
    /\ hits' = IF \E k \in DOMAIN answers : answers[k] = expected THEN hits + 1 ELSE hits
    /\ correct' = [i \in DOMAIN correct |->
                     IF answers[i] = expected THEN correct[i] + 1 ELSE correct[i]]
    /\ pc' = "loop"
    /\ answers' = <<>>
    /\ mates' = <<>>
    /\ ret' = <<>>
    /\ evalCall' = <<>>
    /\ leafMin' = <<>>
    /\ UNCHANGED <<header, strategies, self_depth, raised, nread, expected, si,
                   some_success, stats, boards, stack, puzzle, usedCols>>

\* evaluate_all: the file has no further row; the final snapshot is printed.
EndOfFile ==
    /\ pc = "loop"
    /\ snapshots' = print_stats(snapshots)
    /\ pc' = "done"
    /\ UNCHANGED <<header, strategies, self_depth, raised, nread, expected, si,
                   some_success, stats, boards, stack, puzzle, usedCols, answers,
                   completed, hits, correct, mates, evalCall, leafMin, ret>>

Next ==
    \/ OpenFile
    \/ ReadPuzzle
    \/ RandomGetMove
    \/ MinMaxGetMove
    \/ MinmaxCutoff
    \/ MinmaxTerminal
    \/ EvaluateMove
    \/ MinmaxSelect
    \/ PuzzleDone
    \/ EndOfFile

Spec == Init /\ [][Next]_vars

---------------------------------------------------------------------------
\* One search on its own: a harness with a single registered MinMaxStrategy,
\* of either evaluator and of any depth from 1 to the default, at the point
\* where evaluate_puzzle is about to ask it for its move on a decoded puzzle.

InitSearch ==
    /\ header = HEADERS
    /\ strategies \in {<<MinMaxStrategy("minmax", e)>> : e \in {"balance", "diff"}}
    /\ self_depth \in 1..DEFAULT_DEPTH
    /\ pc = "strategies"
    /\ nread = 1
    /\ \E pos \in PuzzlePositions :
         /\ boards = (0 :> pos)
         /\ puzzle = <<pos>>
    /\ expected = uci(1)
    /\ usedCols = <<"FEN", "Moves">>
    /\ Idle

NextSearch ==
    \/ MinMaxGetMove
    \/ MinmaxCutoff
    \/ MinmaxTerminal
    \/ EvaluateMove
    \/ MinmaxSelect

SpecSearch == InitSearch /\ [][NextSearch]_vars

---------------------------------------------------------------------------
\* Properties.

\* The least score of a non-empty list of (score, move) pairs, and the first
\* position it is found at.
MinScore(evals) ==
    CHOOSE x \in {evals[k][1] : k \in DOMAIN evals} :
        \A k \in DOMAIN evals : x <= evals[k][1]

FirstAt(evals, x) ==
    CHOOSE i \in DOMAIN evals :
        /\ evals[i][1] = x
        /\ \A j \in 1..(i - 1) : evals[j][1] # x

Returned == ret # <<>>
RootReturned == ret # <<>> /\ ret[1].depth = 0

\* C1: for a position with at least one legal move, get_move returns the legal
\* move whose recursively computed score is the least among the root moves, and
\* among several of least score the first in the engine's enumeration order.
\* (The same holds of what minmax returns at every node it expands.)
C1_MinimumFirstInOrder ==
    Returned =>
      LET r == ret[1] IN
      /\ (r.depth = 0 /\ r.moves # <<>>) => r.evals # <<>>
      /\ r.evals # <<>> =>
           LET least == MinScore(r.evals)
               first == FirstAt(r.evals, least)
           IN  /\ [k \in DOMAIN r.evals |-> r.evals[k][2]] = r.moves
               /\ r.score = least
               /\ r.move = <<r.moves[first]>>
               /\ r.depth = 0 => answers[Len(answers)] = uci(r.moves[first])

\* A search to the default depth whose two root moves score alike, answered with
\* the first of them.
C1_Witness ==
    /\ RootReturned
    /\ self_depth = DEFAULT_DEPTH
    /\ Len(ret[1].evals) = 2
    /\ ret[1].evals[1][1] = ret[1].evals[2][1]
    /\ answers = <<uci(1)>>

\* C3: when some root move delivers checkmate, the score of a mating move is
\* strictly smaller than the score of every root move that does not mate, and a
\* search of depth 1 answers with a mating move.
C3_MateDominates ==
    (RootReturned /\ ret[1].evals # <<>>) =>
      LET evs == ret[1].evals IN
      /\ \A i \in DOMAIN evs, j \in DOMAIN evs :
           (mates[i] /\ ~mates[j]) => evs[i][1] < evs[j][1]
      /\ (self_depth = 1 /\ \E i \in DOMAIN evs : mates[i]) => mates[ret[1].move[1]]

InPuzzle == pc \in {"strategies", "search"}

\* The position at hand: the puzzle position outside a search; in a search, the
\* position of a call of minmax that has just begun (every position the search
\* creates is that of the call begun in the step that creates it).
AtHand ==
    IF stack = <<>> THEN {0}
    ELSE IF Top.evals = <<>> THEN {Top.board}
    ELSE {}

\* C6 as claimed: whatever the position and the perspective, the differential
\* evaluator gives 0 for a position evaluated against itself.
C6_ZeroBaseline ==
    \A id \in AtHand, player \in {1, -1} :
        MaterialDiffEvaluate(boards[id], boards[id], player) = 0

\* C6, amended: the differential evaluator gives 0 for a position evaluated
\* against itself unless the position is checkmate, where it gives -perspective;
\* and this is what the search gets when it evaluates the root against itself.
C6_ZeroBaselineUnlessMate ==
    /\ \A id \in AtHand, player \in {1, -1} :
         MaterialDiffEvaluate(boards[id], boards[id], player)
           = IF boards[id].mate THEN -player ELSE 0
    /\ (evalCall # <<>> /\ evalCall[1].depth = 0 /\ evalCall[1].evaluator = "diff")
         => evalCall[1].score = IF puzzle[1].mate THEN -1 ELSE 0

\* The differential evaluator has just scored a stalemated root in which white
\* is a queen up, against itself.
C6_Witness ==
    /\ evalCall # <<>>
    /\ evalCall[1].depth = 0
    /\ evalCall[1].evaluator = "diff"
    /\ ~puzzle[1].mate
    /\ puzzle[1].pieces["w"]["Q"] = 1
    /\ puzzle[1].pieces["b"]["Q"] = 0
    /\ evalCall[1].score = 0


\* C8: the search never changes a board it was given: the puzzle board handed
\* to get_move is the decoded position while strategies are asked and after
\* each has answered, every call's reference board is that root board, and no
\* board on the heap changes its value.
C8_RootIntact ==
    InPuzzle =>
      /\ boards[0] = puzzle[1]
      /\ \A k \in DOMAIN stack : stack[k].init_board = 0

C8_BoardsKeep ==
    InPuzzle =>
      \A id \in DOMAIN boards \cap DOMAIN boards' : boards'[id] = boards[id]

C8_NeverMutates == []C8_RootIntact /\ [][C8_BoardsKeep]_vars

\* A search to the default depth over two root moves has returned, and the
\* board is back with the harness.
C8_Witness ==
    /\ pc = "strategies"
    /\ RootReturned
    /\ self_depth = DEFAULT_DEPTH
    /\ Len(ret[1].evals) = 2
    /\ boards = (0 :> puzzle[1])

\* The most steps a call of minmax at the given depth can take.
RECURSIVE Subtree(_)
Subtree(depth) ==
    IF at_cutoff(depth) THEN 1
    ELSE MaxMoves * (1 + Subtree(depth + 1)) + 1

\* The steps a call still takes: one that is running (the top of the stack),
\* and one that waits for the call it made to return.
Running(f) ==
    IF at_cutoff(f.depth) \/ f.moves = <<>> THEN 1
    ELSE (Len(f.moves) - Len(f.evals)) * (1 + Subtree(f.depth + 1)) + 1

Waiting(f) ==
    (Len(f.moves) - Len(f.evals) - 1) * (1 + Subtree(f.depth + 1)) + 1

\* The most steps the calls on the stack can still take.
RECURSIVE Work(_)
Work(frames) ==
    IF frames = <<>> THEN 0
    ELSE IF Len(frames) = 1 THEN Running(frames[1])
    ELSE Waiting(Head(frames)) + Work(Tail(frames))

\* C9: the search is bounded by the depth and terminates.  No call is deeper
\* than self.depth; the evaluator is called only at that depth, or above it at a
\* position without legal moves; a call above the limit on a position with legal
\* moves evaluates every one of them, in order; a search in progress can always
\* take a step, and every step takes it closer to its end.
C9_Bounded ==
    /\ \A k \in DOMAIN stack :
         /\ stack[k].depth = k - 1
         /\ stack[k].depth <= self_depth
    /\ evalCall # <<>> =>
         \/ evalCall[1].depth = self_depth
         \/ evalCall[1].depth < self_depth /\ evalCall[1].moves = 0
    /\ Returned =>
         LET r == ret[1] IN
         /\ r.evals = <<>> => evalCall # <<>>
         /\ r.evals # <<>> => evalCall = <<>> /\ Len(r.evals) = Len(r.moves)
         /\ (r.depth < self_depth /\ r.moves # <<>>) => r.evals # <<>>
    /\ pc = "search" =>
         /\ stack # <<>>
         /\ AtLimit(Top) \/ NoMoves(Top) \/ MovesLeft(Top) \/ AllEvaluated(Top)
         /\ MovesLeft(Top) => Replies(boards[Top.board], TRUE) # {}

C9_Progress ==
    pc = "search" =>
      /\ Work(stack') < Work(stack)
      /\ pc' # "search" <=> stack' = <<>>

C9_BoundedAndTerminates == []C9_Bounded /\ [][C9_Progress]_vars

\* A search to the default depth is at a position at its depth limit, the
\* second child of its parent, which has as many moves as a position can have.
C9_Witness ==
    /\ pc = "search"
    /\ self_depth = DEFAULT_DEPTH
    /\ Len(stack) = DEFAULT_DEPTH + 1
    /\ Len(stack[DEFAULT_DEPTH].moves) = MaxMoves
    /\ Len(stack[DEFAULT_DEPTH].evals) = 1

\* The least entry of a non-empty list of numbers, and where it is first found.
Least(scores) ==
    CHOOSE x \in {scores[k] : k \in DOMAIN scores} :
        \A k \in DOMAIN scores : x <= scores[k]

FirstOf(scores, x) ==
    CHOOSE i \in DOMAIN scores : scores[i] = x /\ \A j \in 1..(i - 1) : scores[j] # x

\* C10: the perspective is never flipped between plies and the reference is
\* always the root: every call of minmax, hence every evaluator call, has
\* player = 1 and init_board = the root board.  So what minmax returns for the
\* root is the least evaluator score over all leaves of the depth-bounded tree,
\* with the first root move whose subtree holds such a leaf; and at the
\* opponent's nodes too the least score is taken, not the greatest.
C10_NoFlipLeastLeaf ==
    /\ \A k \in DOMAIN stack : stack[k].player = 1 /\ stack[k].init_board = 0
    /\ evalCall # <<>> => evalCall[1].player = 1 /\ evalCall[1].init_board = 0
    /\ (Returned /\ ret[1].evals # <<>>) =>
         \A k \in DOMAIN ret[1].evals : ret[1].score <= ret[1].evals[k][1]
    /\ (RootReturned /\ ret[1].evals # <<>>) =>
         /\ Len(leafMin) = Len(ret[1].moves)
         /\ ret[1].score = Least(leafMin)
         /\ ret[1].move = <<FirstOf(leafMin, Least(leafMin))>>

\* A search deeper than one ply has returned the second root move, whose
\* subtree holds the one least leaf.
C10_Witness ==
    /\ RootReturned
    /\ self_depth > 1
    /\ Len(leafMin) = 2
    /\ leafMin[2] < leafMin[1]
    /\ ret[1].move = <<2>>
    /\ answers = <<uci(2)>>

\* C5: after any number of completed puzzles every strategy has as many attempts
\* as puzzles were completed and as many successes as puzzles it answered with
\* the expected move, plus one attempt (and one success if it was right) once it
\* has answered the puzzle in progress; strategies are asked in registration
\* order, and an answer changes the counters of the strategy that gave it alone.
C5_StatsAccounting ==
    /\ InPuzzle => Len(answers) = si - 1
    /\ \A i \in DOMAIN strategies :
         LET answered == i <= Len(answers)
             right == answered /\ answers[i] = expected
         IN  /\ stats[i].total = completed + (IF answered THEN 1 ELSE 0)
             /\ stats[i].wins = correct[i] + (IF right THEN 1 ELSE 0)
             /\ 0 <= stats[i].wins
             /\ stats[i].wins <= stats[i].total

\* Two puzzles are done: the random strategy got one right, minmax_balance
\* both, minmax_diff neither.
C5_Witness ==
    /\ pc = "done"
    /\ completed = 2
    /\ stats[1] = [wins |-> 1, total |-> 2]
    /\ stats[2] = [wins |-> 2, total |-> 2]
    /\ stats[3] = [wins |-> 0, total |-> 2]

\* C2: on a puzzle position without legal moves every strategy answers "no
\* move" and nothing is raised.
C2_NoMoveIsAMiss ==
    (header = HEADERS /\ puzzle # <<>> /\ puzzle[1].moves = 0) =>
      /\ raised = "none"
      /\ \A k \in DOMAIN answers : answers[k] = None /\ answers[k] # expected

\* C4: with the file in the documented column order, a snapshot has been
\* emitted for each completed puzzle that some strategy answered correctly and
\* for no other, and once evaluate_all has ended there is exactly one more.
C4_SnapshotPerHitPlusFinal ==
    header = HEADERS =>
      /\ pc \in {"start", "loop", "strategies", "search"} => snapshots = hits
      /\ pc \in {"done", "raised"} => snapshots = hits + 1

\* C7: extract_puzzle takes the position from the row's FEN cell and the moves
\* from its Moves cell, whatever the order of the columns in the file.
C7_ColumnsByName ==
    usedCols # <<>> => usedCols = <<"FEN", "Moves">>

====
